---- MODULE Spec2Model ----
(***************************************************************************)
(* HEALTHTECK triage client: the intake wizard (Kiosk), the session store  *)
(* (AuthProvider), the route guard and the queue dashboard (Dashboard),    *)
(* modelled as state machines over React component state, the requests in  *)
(* flight and the remote triage service.                                   *)
(*                                                                         *)
(* Conventions.  A nullable value (T | null) is a sequence of length at    *)
(* most one: Null is <<>> and Some(v) is <<v>>.  A text entered by the     *)
(* operator is a sequence of one-character strings; a message built by     *)
(* the program is the sequence of the pieces it concatenates.  One action  *)
(* is one event-loop task: an event handler or the continuation of an      *)
(* await, together with the re-render and the effects it causes.           *)
(***************************************************************************)
EXTENDS Naturals, Sequences, FiniteSets, TLC

VARIABLES
    root,       \* which of the repository's two App components is mounted
    crashed,    \* a render threw: React has removed the whole tree
    thrown,     \* the message of the error that render threw, if any
    location,   \* the route shown by the router
    kiosk,      \* state of the Kiosk component (part_001:56-72)
    triage,     \* the POST /triage request in flight, if any
    abandoned,  \* POST /triage requests in flight whose Kiosk was unmounted
    token,      \* AuthProvider's token state
    authToken,  \* the localStorage slot 'authToken'
    issued,     \* how many access tokens POST /token has issued
    login,      \* state of the Login component
    tokenReq,   \* whether the POST /token request of Login is in flight
    register,   \* state of the Register component
    regReq,     \* whether the POST /users/register request is in flight
    dash,       \* state of the Dashboard component
    intervals,  \* number of setInterval timers not yet cleared
    cycles,     \* fetch cycles in flight of the mounted Dashboard, in issue order
    resolves,   \* POST /resolve calls in flight of the mounted Dashboard
    orphans,    \* per token: requests in flight whose Dashboard was unmounted
    queue,      \* the service's patient queue (set of tickets)
    authErrorRuns   \* history: per token, runs of handleAuthError (saturates at 2)

kioskVars == <<kiosk, triage, abandoned>>

storeVars ==
    <<root, crashed, thrown, token, authToken, issued, login, tokenReq, register, regReq, dash,
      intervals, cycles, resolves, orphans, queue, authErrorRuns>>

sessionVars == <<storeVars, abandoned>>

-----------------------------------------------------------------------------
(* Bounds of the model *)

MaxLen == 2        \* longest text typed into name, age and mainComplaint
MaxErrors == 2     \* most field errors in one 422 response
MaxAbandoned == 1  \* most submissions in flight whose wizard was left

-----------------------------------------------------------------------------
(* Values *)

Null == <<>>
Some(v) == <<v>>

Chars == {" ", "a"}
Whitespace == {" "}

TextUpTo(alphabet, n) == UNION {[1..k -> alphabet] : k \in 0..n}

\* what can be typed in a text input or textarea
Text == TextUpTo(Chars, MaxLen)
\* <Input type="number">: the browser hands over a numeric string or ""
AgeText == TextUpTo({"3"}, MaxLen)
\* the optional textareas of step 3
OptText == {<<>>, <<"a">>}

\* String.prototype.trim, as used by isNextDisabled
RECURSIVE TrimStart(_)
TrimStart(s) ==
    IF s # <<>> /\ Head(s) \in Whitespace THEN TrimStart(Tail(s)) ELSE s

RECURSIVE TrimEnd(_)
TrimEnd(s) ==
    IF s # <<>> /\ s[Len(s)] \in Whitespace
    THEN TrimEnd(SubSeq(s, 1, Len(s) - 1))
    ELSE s

trim(s) == TrimEnd(TrimStart(s))

-----------------------------------------------------------------------------
(* Kiosk: the intake wizard *)

\* the keys of complaintOptions; "a" and "aa" stand for "dor_peito", "febre", ...
complaintOptions == {<<"a">>, <<"a", "a">>}

EmptyForm ==
    [name |-> <<>>, age |-> <<>>, mainComplaint |-> <<>>,
     symptoms |-> <<>>, medicalHistory |-> <<>>]

\* the useState initial values of Kiosk
KioskInit ==
    [step |-> 1, isLoading |-> FALSE, apiResult |-> Null,
     complaintMode |-> "null", errorMessage |-> Null, formData |-> EmptyForm]

updateFormData(k, field, value) ==
    [k EXCEPT !.formData = [@ EXCEPT ![field] = value]]

\* a gate that compares the raw texts
isNextDisabledNoTrim(k) ==
    CASE k.step = 1 -> k.formData.name = <<>> \/ k.formData.age = <<>>
      [] k.step = 2 -> k.complaintMode = "null" \/ k.formData.mainComplaint = <<>>
      [] OTHER -> FALSE

\* a gate that does not look at the complaint mode
isNextDisabledNoMode(k) ==
    CASE k.step = 1 -> trim(k.formData.name) = <<>> \/ trim(k.formData.age) = <<>>
      [] k.step = 2 -> trim(k.formData.mainComplaint) = <<>>
      [] OTHER -> FALSE

isNextDisabled(k) ==
    CASE k.step = 1 -> trim(k.formData.name) = <<>> \/ trim(k.formData.age) = <<>>
      [] k.step = 2 -> k.complaintMode = "null" \/ trim(k.formData.mainComplaint) = <<>>
      [] k.step = 3 -> FALSE
      [] OTHER -> FALSE

\* a body whose name is sent trimmed
payloadOfTrimmed(formData) ==
    [name |-> trim(formData.name), age |-> formData.age,
     mainComplaint |-> formData.mainComplaint,
     symptoms |-> formData.symptoms, medicalHistory |-> formData.medicalHistory]

\* the body built by handleSubmit: the five fields as they are
payloadOf(formData) ==
    [name |-> formData.name, age |-> formData.age,
     mainComplaint |-> formData.mainComplaint,
     symptoms |-> formData.symptoms, medicalHistory |-> formData.medicalHistory]

\* a start of the submission that leaves the loading flag as it is
handleSubmitStartNoFlag(k) ==
    [k EXCEPT !.step = 4, !.errorMessage = Null]

\* handleSubmit up to its await: loading view, old error cleared, request sent
handleSubmitStart(k) ==
    [k EXCEPT !.step = 4, !.isLoading = TRUE, !.errorMessage = Null]

-----------------------------------------------------------------------------
(* The answers POST /triage can give *)

TriageResults ==
    {[patient_name |-> <<"a">>,
      classification |-> [priority |-> p, ticket |-> "A001"]] :
        p \in {"VERMELHO", "AZUL", "ROXO", "constructor"}}

FieldErrorEntries ==
    {[loc |-> <<"body", "age">>, msg |-> <<"Value error, ", "idade invalida">>],
     [loc |-> <<"body", "name">>, msg |-> <<"campo obrigatorio">>]}

FieldErrorLists == UNION {[1..n -> FieldErrorEntries] : n \in 0..MaxErrors}

\* kind: "network" (fetch rejects), "notjson" (body unparsable),
\* "result" (a TriageResult), "list" ({detail: [...]}), "text" ({detail: "..."}),
\* "nodetail" (JSON without detail)
Response(kind, status, detail, result, message) ==
    [kind |-> kind, status |-> status, detail |-> detail, result |-> result,
     message |-> message]

TriageResponses ==
       {Response("network", 0, <<>>, Null, m) :
            m \in {<<"Failed to fetch">>, <<>>}}
    \cup {Response("result", 200, <<>>, Some(r), <<>>) : r \in TriageResults}
    \cup {Response("notjson", s, <<>>, Null, <<>>) : s \in {200, 422, 500}}
    \cup {Response("list", 422, d, Null, <<>>) : d \in FieldErrorLists}
    \cup {Response("text", s, d, Null, <<>>) :
            s \in {401, 422, 500}, d \in {<<"Servico indisponivel">>, <<>>}}
    \cup {Response("nodetail", s, <<>>, Null, <<>>) : s \in {422, 500}}

ok(resp) == resp.kind # "network" /\ resp.status \in 200..299

\* msg.replace("Value error, ", ""): the first occurrence is dropped
RECURSIVE replaceValueError(_)
replaceValueError(msg) ==
    IF msg = <<>> THEN <<>>
    ELSE IF Head(msg) = "Value error, " THEN Tail(msg)
    ELSE <<Head(msg)>> \o replaceValueError(Tail(msg))

\* err.loc[1] of JavaScript: the second element, undefined when there is none
locField(loc) == IF Len(loc) >= 2 THEN loc[2] ELSE "undefined"

fieldMessage(err) ==
    <<"Campo \"", locField(err.loc), "\": ">> \o replaceValueError(err.msg)

\* a join that keeps the first entry only
joinFirstOnly(parts) == IF parts = <<>> THEN <<>> ELSE Head(parts)

\* Array.prototype.join(", ") over the mapped entries
RECURSIVE joinComma(_)
joinComma(parts) ==
    IF parts = <<>> THEN <<>>
    ELSE IF Len(parts) = 1 THEN Head(parts)
    ELSE Head(parts) \o <<", ">> \o joinComma(Tail(parts))

errorMessages(detail) ==
    joinComma([i \in 1..Len(detail) |-> fieldMessage(detail[i])])

\* the Error thrown inside handleSubmit's try block for a response, <<>> when
\* nothing is thrown; "thrown" tells the two apart
thrownBy(resp) ==
    IF resp.kind = "network" THEN [thrown |-> TRUE, message |-> resp.message]
    ELSE IF ~ok(resp) THEN
        IF resp.kind = "notjson"
        THEN [thrown |-> TRUE, message |-> <<"Erro ", ToString(resp.status), ": ">>]
        ELSE IF resp.status = 422
                /\ (resp.kind = "list" \/ (resp.kind = "text" /\ resp.detail # <<>>))
        THEN IF resp.kind = "list"
             THEN [thrown |-> TRUE,
                   message |-> <<"Dados inválidos: ">> \o errorMessages(resp.detail)]
             ELSE [thrown |-> TRUE,
                   message |-> <<"errorData.detail.map is not a function">>]
        ELSE IF resp.kind = "text" /\ resp.detail # <<>>
        THEN [thrown |-> TRUE, message |-> resp.detail]
        ELSE [thrown |-> TRUE,
              message |-> <<"Ocorreu um erro desconhecido no servidor.">>]
    ELSE IF resp.kind = "notjson"
    THEN [thrown |-> TRUE, message |-> <<"Unexpected token">>]
    ELSE [thrown |-> FALSE, message |-> <<>>]

\* a continuation that shows the result view before the body is read
handleSubmitSettleEager(k, resp) ==
    IF resp.kind # "network" /\ ok(resp)
    THEN [k EXCEPT !.apiResult = resp.result, !.isLoading = FALSE, !.step = 5]
    ELSE [k EXCEPT !.errorMessage = <<"Erro">>, !.isLoading = FALSE, !.step = 3]

\* a continuation that shows whatever message the error carries
handleSubmitSettleNoDefault(k, resp) ==
    LET t == thrownBy(resp) IN
    IF t.thrown
    THEN [k EXCEPT !.errorMessage = t.message, !.isLoading = FALSE, !.step = 3]
    ELSE [k EXCEPT !.apiResult = resp.result, !.isLoading = FALSE, !.step = 5]

\* the continuation of handleSubmit once fetch has settled
handleSubmitSettle(k, resp) ==
    LET t == thrownBy(resp) IN
    IF t.thrown
    THEN [k EXCEPT
            !.errorMessage =
                IF t.message # <<>> THEN t.message
                ELSE <<"Não foi possível ligar ao servidor de triagem.">>,
            !.isLoading = FALSE,
            !.step = 3]
    ELSE [k EXCEPT !.apiResult = resp.result, !.isLoading = FALSE, !.step = 5]

-----------------------------------------------------------------------------
(* Kiosk and Dashboard: the style tables *)

\* the keys the object literals resultConfig and priorityStyles define
OwnStyles == {"VERMELHO", "LARANJA", "AMARELO", "VERDE", "AZUL"}

\* keys every object literal inherits from Object.prototype
InheritedKeys == {"constructor", "toString", "valueOf", "hasOwnProperty"}

\* table[key] on one of the two literals: the style entry of an own key, the
\* inherited member of an inherited key, undefined otherwise
lookup(key) ==
    IF key \in OwnStyles THEN [kind |-> "style", of |-> key]
    ELSE IF key \in InheritedKeys THEN [kind |-> "inherited", of |-> key]
    ELSE [kind |-> "undefined", of |-> ""]

truthy(v) == v.kind # "undefined"

\* Kiosk: apiResult && resultConfig[priority] ? resultConfig[priority] : resultConfig.AZUL
currentResultStyle(k) ==
    IF k.apiResult # Null /\ truthy(lookup(k.apiResult[1].classification.priority))
    THEN lookup(k.apiResult[1].classification.priority)
    ELSE lookup("AZUL")

\* the result view passes currentResultStyle.icon to React.cloneElement, which
\* throws when it is given undefined
resultViewThrows(k) == k.step = 5 /\ currentResultStyle(k).kind # "style"

-----------------------------------------------------------------------------
(* Kiosk: the operator's actions *)

\* what React.cloneElement throws when it is given undefined
CloneOfUndefined == "React.cloneElement(...): The argument must be a React element, but you passed undefined."

KioskShown == location = "/kiosk" /\ ~crashed

\* what a wizard step leaves alone beside the wizard itself
sessionRest ==
    <<root, token, authToken, issued, login, tokenReq, register, regReq, dash,
      intervals, cycles, resolves, orphans, queue, authErrorRuns, abandoned>>

TypeName ==
    /\ KioskShown /\ kiosk.step = 1
    /\ \E v \in Text : kiosk' = updateFormData(kiosk, "name", v)
    /\ UNCHANGED <<location, triage, sessionVars>>

TypeAge ==
    /\ KioskShown /\ kiosk.step = 1
    /\ \E v \in AgeText : kiosk' = updateFormData(kiosk, "age", v)
    /\ UNCHANGED <<location, triage, sessionVars>>

\* an option button of the list (part_001:458-473)
SelectOption ==
    /\ KioskShown /\ kiosk.step = 2 /\ kiosk.complaintMode = "options"
    /\ \E key \in complaintOptions :
            kiosk' = updateFormData(kiosk, "mainComplaint", key)
    /\ UNCHANGED <<location, triage, sessionVars>>

\* the free-text textarea (part_001:495-509)
TypeComplaint ==
    /\ KioskShown /\ kiosk.step = 2 /\ kiosk.complaintMode = "text"
    /\ \E v \in Text : kiosk' = updateFormData(kiosk, "mainComplaint", v)
    /\ UNCHANGED <<location, triage, sessionVars>>

TypeSymptoms ==
    /\ KioskShown /\ kiosk.step = 3
    /\ \E v \in OptText : kiosk' = updateFormData(kiosk, "symptoms", v)
    /\ UNCHANGED <<location, triage, sessionVars>>

TypeMedicalHistory ==
    /\ KioskShown /\ kiosk.step = 3
    /\ \E v \in OptText : kiosk' = updateFormData(kiosk, "medicalHistory", v)
    /\ UNCHANGED <<location, triage, sessionVars>>

\* "Selecionar em uma lista"
chooseOptions(k) == [k EXCEPT !.complaintMode = "options"]

\* a mode button that clears whatever was entered
chooseTextAlwaysClear(k) ==
    [updateFormData(k, "mainComplaint", <<>>) EXCEPT !.complaintMode = "text"]

\* "Descrever com minhas palavras"
chooseText(k) ==
    [(IF k.formData.mainComplaint \in complaintOptions
      THEN updateFormData(k, "mainComplaint", <<>>)
      ELSE k)
     EXCEPT !.complaintMode = "text"]

\* "Alterar modo de inserção"
changeMode(k) == [k EXCEPT !.complaintMode = "null"]

ChooseOptions ==
    /\ KioskShown /\ kiosk.step = 2 /\ kiosk.complaintMode = "null"
    /\ kiosk' = chooseOptions(kiosk)
    /\ UNCHANGED <<location, triage, sessionVars>>

ChooseText ==
    /\ KioskShown /\ kiosk.step = 2 /\ kiosk.complaintMode = "null"
    /\ kiosk' = chooseText(kiosk)
    /\ UNCHANGED <<location, triage, sessionVars>>

ChangeMode ==
    /\ KioskShown /\ kiosk.step = 2 /\ kiosk.complaintMode # "null"
    /\ kiosk' = changeMode(kiosk)
    /\ UNCHANGED <<location, triage, sessionVars>>

\* a Próximo button that is enabled whatever the form holds
nextButtonUngated(k) == k.step <= 3 /\ ~k.isLoading

\* the Próximo button is rendered while step < 3, Concluir Triagem at step 3
nextButtonEnabled(k) ==
    \/ k.step < 3 /\ ~isNextDisabled(k)
    \/ k.step = 3 /\ ~(isNextDisabled(k) \/ k.isLoading)

\* nextStep for step < 3; at step 3 it calls handleSubmit
nextStep(k) ==
    IF k.step = 3 THEN handleSubmitStart(k)
    ELSE IF k.step < 5 THEN [k EXCEPT !.step = k.step + 1]
    ELSE k

NextStep ==
    /\ KioskShown /\ nextButtonEnabled(kiosk)
    /\ kiosk' = nextStep(kiosk)
    /\ triage' = IF kiosk.step = 3
                 THEN Some([payload |-> payloadOf(kiosk.formData)])
                 ELSE triage
    /\ UNCHANGED <<location, sessionVars>>

prevButtonEnabled(k) == ~(k.step = 1 \/ k.step >= 4)

\* a prevStep that discards the complaint on the way back
prevStepClearing(k) ==
    IF k.step > 1
    THEN [updateFormData(k, "mainComplaint", <<>>) EXCEPT !.step = k.step - 1]
    ELSE k

\* prevStep below step 5; at step 5 it calls startOver (see StartOver)
prevStep(k) == IF k.step > 1 THEN [k EXCEPT !.step = k.step - 1] ELSE k

PrevStep ==
    /\ KioskShown /\ prevButtonEnabled(kiosk)
    /\ kiosk' = prevStep(kiosk)
    /\ UNCHANGED <<location, triage, sessionVars>>

\* a settle step of the wizard that ends the session when the submission fails
SubmitSettleLogout ==
    /\ KioskShown /\ triage # Null
    /\ \E resp \in TriageResponses :
        /\ kiosk' = handleSubmitSettle(kiosk, resp)
        /\ token' = IF ok(resp) THEN token ELSE Null
        /\ authToken' = IF ok(resp) THEN authToken ELSE Null
    /\ triage' = Null
    /\ crashed' = resultViewThrows(kiosk')
    /\ thrown' = IF resultViewThrows(kiosk') THEN Some(CloneOfUndefined) ELSE thrown
    /\ UNCHANGED <<location, root, issued, login, tokenReq, register, regReq,
                   dash, intervals, cycles, resolves, orphans, queue, authErrorRuns,
                   abandoned>>

\* the request settles and the continuation of handleSubmit runs
SubmitSettle ==
    /\ KioskShown /\ triage # Null
    /\ \E resp \in TriageResponses : kiosk' = handleSubmitSettle(kiosk, resp)
    /\ triage' = Null
    /\ crashed' = resultViewThrows(kiosk')
    /\ thrown' = IF resultViewThrows(kiosk') THEN Some(CloneOfUndefined) ELSE thrown
    /\ UNCHANGED <<location, sessionRest>>

\* a start over that only goes back to the first step
StartOverStepOnly ==
    /\ KioskShown /\ kiosk.step = 5
    /\ kiosk' = [kiosk EXCEPT !.step = 1]
    /\ triage' = Null
    /\ UNCHANGED <<location, sessionVars>>

\* "Finalizar e Voltar ao Início": window.location.href = "/" reloads the page
StartOver ==
    /\ KioskShown /\ kiosk.step = 5
    /\ location' = "/"
    /\ kiosk' = KioskInit
    /\ triage' = Null
    /\ abandoned' = 0
    /\ UNCHANGED storeVars

\* what unmounting the Kiosk leaves of its request: fetch is not aborted
abandon(n, req) == IF req # Null THEN n + 1 ELSE n

\* a Header link leaves the wizard: the component and its state are dropped; a
\* request still in flight stays in flight
LeaveKiosk ==
    /\ KioskShown
    /\ abandon(abandoned, triage) <= MaxAbandoned
    /\ location' = "/"
    /\ kiosk' = KioskInit
    /\ triage' = Null
    /\ abandoned' = abandon(abandoned, triage)
    /\ UNCHANGED storeVars

\* the continuation of handleSubmit in a Kiosk that was unmounted: its setters
\* act on a component that is gone
AbandonedSettle ==
    /\ abandoned > 0
    /\ abandoned' = abandoned - 1
    /\ UNCHANGED <<location, kiosk, triage, storeVars>>

\* the Totem link mounts a new Kiosk
OpenKiosk ==
    /\ location = "/"
    /\ location' = "/kiosk"
    /\ kiosk' = KioskInit
    /\ triage' = Null
    /\ UNCHANGED sessionVars

KioskNext ==
    \/ TypeName \/ TypeAge \/ SelectOption \/ TypeComplaint
    \/ TypeSymptoms \/ TypeMedicalHistory
    \/ ChooseOptions \/ ChooseText \/ ChangeMode
    \/ NextStep \/ PrevStep \/ SubmitSettle
    \/ StartOver \/ LeaveKiosk \/ OpenKiosk
    \/ AbandonedSettle

vars == <<location, kiosk, triage, sessionVars>>


-----------------------------------------------------------------------------
(* Session store, router, Login and Dashboard.  The handlers are functions *)
(* of the world w, a record of the variables below; an action applies one  *)
(* handler and then commit, React's re-render with its effects.            *)

MaxTicket == 2     \* tickets the service hands out
MaxTokens == 2     \* access tokens the service issues
MaxInFlight == 3   \* requests in flight: fetch cycles, resolve calls, orphans
MaxEarlyReads == 1 \* cycles in flight whose answer the service has already read
MaxBusy == 2       \* requests in flight in the Dashboard specification
MaxHeld == 1       \* requests in flight in the credential specification

\* the repository holds two App components: the one of src/App.tsx routes
\* /dashboard to Dashboard directly and mounts neither AuthProvider nor Login;
\* the one of components/Auth.tsx mounts AuthProvider and routes /dashboard
\* through ProtectedRoute and /login to Login
LegacyApp == "src/App.tsx"
GuardedApp == "src/components/Auth.tsx"
Roots == {LegacyApp, GuardedApp}

Tickets == 1..MaxTicket
Tokens == 1..MaxTokens

\* what can be typed into the diagnosis input
DiagnosisText == {<<>>, <<" ">>, <<"a">>}

\* the useState initial values of Dashboard
DashInit ==
    [patients |-> <<>>, stats |-> [total_in_queue |-> 0],
     isLoading |-> TRUE, isPolling |-> FALSE, error |-> Null,
     isModalOpen |-> FALSE, currentPatient |-> Null,
     finalDiagnosis |-> <<>>, modalError |-> Null]

\* the useState initial values of Login
LoginInit == [isLoading |-> FALSE, error |-> Null]

\* the useState initial values of Register's isLoading and error
RegisterInit == [isLoading |-> FALSE, error |-> Null]

World ==
    [root |-> root, crashed |-> crashed, thrown |-> thrown, location |-> location, token |-> token, authToken |-> authToken,
     issued |-> issued, login |-> login, tokenReq |-> tokenReq,
     register |-> register, regReq |-> regReq, dash |-> dash,
     intervals |-> intervals, cycles |-> cycles, resolves |-> resolves,
     orphans |-> orphans, queue |-> queue, authErrorRuns |-> authErrorRuns,
     abandoned |-> abandoned]

Apply(w) ==
    /\ location = "/kiosk" /\ w.location # "/kiosk"
       => abandon(w.abandoned, triage) <= MaxAbandoned
    /\ root' = w.root
    /\ crashed' = w.crashed
    /\ thrown' = w.thrown
    /\ location' = w.location
    /\ token' = w.token
    /\ authToken' = w.authToken
    /\ issued' = w.issued
    /\ login' = w.login
    /\ tokenReq' = w.tokenReq
    /\ register' = w.register
    /\ regReq' = w.regReq
    /\ dash' = w.dash
    /\ intervals' = w.intervals
    /\ cycles' = w.cycles
    /\ resolves' = w.resolves
    /\ orphans' = w.orphans
    /\ queue' = w.queue
    /\ authErrorRuns' = w.authErrorRuns
    /\ kiosk' = IF location = "/kiosk" /\ w.location # "/kiosk" THEN KioskInit ELSE kiosk
    /\ triage' = IF location = "/kiosk" /\ w.location # "/kiosk" THEN Null ELSE triage
    /\ abandoned' = IF location = "/kiosk" /\ w.location # "/kiosk"
                    THEN abandon(w.abandoned, triage) ELSE w.abandoned

RemoveAt(s, i) == SubSeq(s, 1, i - 1) \o SubSeq(s, i + 1, Len(s))

RECURSIVE SumOver(_, _)
SumOver(f, S) ==
    IF S = {} THEN 0
    ELSE LET x == CHOOSE y \in S : TRUE IN f[x] + SumOver(f, S \ {x})

InFlight(w) == Len(w.cycles) + Len(w.resolves) + SumOver(w.orphans, Tokens)

\* the service lists its queue in ticket order
RECURSIVE Listing(_)
Listing(S) ==
    IF S = {} THEN <<>>
    ELSE LET m == CHOOSE x \in S : \A y \in S : x <= y
         IN <<m>> \o Listing(S \ {m})

-----------------------------------------------------------------------------
(* AuthProvider *)

authLogin(w, newToken) ==
    [w EXCEPT !.token = Some(newToken), !.authToken = Some(newToken)]

\* a logout that leaves the stored credential behind
logoutMemoryOnly(w) == [w EXCEPT !.token = Null]

logout(w) == [w EXCEPT !.token = Null, !.authToken = Null]

isAuthenticated(w) == w.token # Null

navigate(w, to) == [w EXCEPT !.location = to]

-----------------------------------------------------------------------------
(* Dashboard: fetchData *)

\* a cycle that is sent with the first credential the service issued
NewCycleFirstToken(isInitialLoad, tok) ==
    [initial |-> isInitialLoad, token |-> 1, snap |-> Null, overtaken |-> FALSE]

NewCycle(isInitialLoad, tok) ==
    [initial |-> isInitialLoad, token |-> tok, snap |-> Null, overtaken |-> FALSE]

\* fetchData up to its await
fetchData(w, isInitialLoad) ==
    IF (~isInitialLoad /\ w.dash.isPolling) \/ w.token = Null THEN w
    ELSE [w EXCEPT
            !.dash = IF isInitialLoad THEN [@ EXCEPT !.isLoading = TRUE]
                     ELSE [@ EXCEPT !.isPolling = TRUE],
            !.cycles = Append(@, NewCycle(isInitialLoad, w.token[1]))]

Bump(n) == IF n < 2 THEN n + 1 ELSE n

\* handleAuthError called by a request that was sent with token tok; setError
\* reaches the component only while the instance that sent it is mounted
handleAuthError(w, live, tok) ==
    LET w1 == IF live
              THEN [w EXCEPT !.dash.error =
                        <<"Sessão expirada. Por favor, faça login novamente.">>]
              ELSE w
        w2 == navigate(logout(w1), "/login")
    IN [w2 EXCEPT !.authErrorRuns[tok] = Bump(@)]

\* what the two fetches of a cycle can settle with
FetchOutcome == {"network", "401", "500", "notjson", "ok"}

\* a finally block that leaves the polling flag up
finallyOfLoadingOnly(w) == [w EXCEPT !.dash.isLoading = FALSE]

finallyOf(w) == [w EXCEPT !.dash.isLoading = FALSE, !.dash.isPolling = FALSE]

\* a store of the fetched data that leaves the error banner as it was
setFetchedKeepError(w, list) ==
    [w EXCEPT !.dash.patients = list,
              !.dash.stats = [total_in_queue |-> Len(list)]]

setFetched(w, list) ==
    [w EXCEPT !.dash.patients = list,
              !.dash.stats = [total_in_queue |-> Len(list)],
              !.dash.error = Null]

\* a try block that stores the entry list before the stats body is parsed
fetchDataTryPartial(w, tok, p, s, list) ==
    IF p = "network" \/ s = "network"
    THEN [w EXCEPT !.dash.error = <<"Failed to fetch">>]
    ELSE IF p = "401" \/ s = "401"
    THEN handleAuthError(w, TRUE, tok)
    ELSE IF p = "500" \/ s = "500"
    THEN [w EXCEPT !.dash.error = <<"Falha ao buscar dados do servidor. Verifique se o backend (api.py) está a rodar.">>]
    ELSE IF p = "notjson"
    THEN [w EXCEPT !.dash.error = <<"Unexpected token">>]
    ELSE IF s = "notjson"
    THEN [w EXCEPT !.dash.patients = list,
                   !.dash.error = <<"Unexpected token">>]
    ELSE setFetched(w, list)

\* the try block of fetchData after Promise.all, for the outcomes p of /patients
\* and s of /stats and the list the service read
fetchDataTry(w, tok, p, s, list) ==
    IF p = "network" \/ s = "network"
    THEN [w EXCEPT !.dash.error = <<"Failed to fetch">>]
    ELSE IF p = "401" \/ s = "401"
    THEN handleAuthError(w, TRUE, tok)
    ELSE IF p = "500" \/ s = "500"
    THEN [w EXCEPT !.dash.error = <<"Falha ao buscar dados do servidor. Verifique se o backend (api.py) está a rodar.">>]
    ELSE IF p = "notjson" \/ s = "notjson"
    THEN [w EXCEPT !.dash.error = <<"Unexpected token">>]
    ELSE setFetched(w, list)

\* history: when a cycle's data is stored, the first n of the cycles still in
\* flight, which were issued before it, are marked as overtaken
overtake(cs, n, stored) ==
    [k \in 1..Len(cs) |->
        IF stored /\ k <= n THEN [cs[k] EXCEPT !.overtaken = TRUE] ELSE cs[k]]

\* the continuation of fetchData for cycle i of the mounted Dashboard
fetchDataSettle(w, i, p, s) ==
    LET c == w.cycles[i]
        list == IF c.snap = Null THEN Listing(w.queue) ELSE c.snap[1]
        w1 == [w EXCEPT !.cycles = overtake(RemoveAt(@, i), i - 1, p = "ok" /\ s = "ok")]
    IN finallyOf(fetchDataTry(w1, c.token, p, s, list))

-----------------------------------------------------------------------------
(* Dashboard: the diagnosis dialog *)

\* an opening of the dialog that takes the entry off the list at once
handleOpenModalOptimistic(w, patient) ==
    [w EXCEPT !.dash.patients = SelectSeq(@, LAMBDA p : p # patient),
              !.dash.currentPatient = Some(patient),
              !.dash.finalDiagnosis = <<>>,
              !.dash.modalError = Null,
              !.dash.isModalOpen = TRUE]

handleOpenModal(w, patient) ==
    [w EXCEPT !.dash.currentPatient = Some(patient),
              !.dash.finalDiagnosis = <<>>,
              !.dash.modalError = Null,
              !.dash.isModalOpen = TRUE]

handleCloseModal(w) ==
    [w EXCEPT !.dash.isModalOpen = FALSE, !.dash.currentPatient = Null]

\* a confirmation that tests the raw text
handleSubmitDiagnosisNoTrim(w) ==
    IF w.dash.finalDiagnosis = <<>>
    THEN [w EXCEPT !.dash.modalError =
                <<"O diagnóstico final não pode estar vazio.">>]
    ELSE IF w.dash.currentPatient = Null THEN w
    ELSE [w EXCEPT
            !.dash.modalError = Null,
            !.resolves = Append(@, [ticket |-> w.dash.currentPatient[1],
                                    token |-> w.token[1],
                                    final_diagnosis |-> w.dash.finalDiagnosis])]

\* handleSubmitDiagnosis up to its await
handleSubmitDiagnosis(w) ==
    IF trim(w.dash.finalDiagnosis) = <<>>
    THEN [w EXCEPT !.dash.modalError =
                <<"O diagnóstico final não pode estar vazio.">>]
    ELSE IF w.dash.currentPatient = Null THEN w
    ELSE [w EXCEPT
            !.dash.modalError = Null,
            !.resolves = Append(@, [ticket |-> w.dash.currentPatient[1],
                                    token |-> w.token[1],
                                    final_diagnosis |-> w.dash.finalDiagnosis])]

ResolveOutcome == {"network", "401", "500", "ok"}

removeLocally(w, ticket) ==
    [w EXCEPT !.dash.patients = SelectSeq(@, LAMBDA p : p # ticket)]

\* a continuation that takes the entry off the list whatever the answer
resolveTryRemoveAlways(w, r, outcome) ==
    IF outcome = "401" THEN handleAuthError(w, TRUE, r.token)
    ELSE IF outcome = "ok" THEN handleCloseModal(removeLocally(w, r.ticket))
    ELSE [removeLocally(w, r.ticket) EXCEPT !.dash.modalError = <<"Failed">>]

\* a continuation whose failure also clears the error banner
resolveTryClearError(w, r, outcome) ==
    IF outcome = "network"
    THEN [w EXCEPT !.dash.modalError = <<"Failed to fetch">>, !.dash.error = Null]
    ELSE IF outcome = "401"
    THEN handleAuthError(w, TRUE, r.token)
    ELSE IF outcome = "500"
    THEN [w EXCEPT !.dash.modalError =
                <<"Falha ao submeter o diagnóstico. Tente novamente.">>,
                   !.dash.error = Null]
    ELSE handleCloseModal(removeLocally(w, r.ticket))

\* the continuation of handleSubmitDiagnosis for the call r
resolveTry(w, r, outcome) ==
    IF outcome = "network"
    THEN [w EXCEPT !.dash.modalError = <<"Failed to fetch">>]
    ELSE IF outcome = "401"
    THEN handleAuthError(w, TRUE, r.token)
    ELSE IF outcome = "500"
    THEN [w EXCEPT !.dash.modalError =
                <<"Falha ao submeter o diagnóstico. Tente novamente.">>]
    ELSE handleCloseModal(removeLocally(w, r.ticket))

\* POST /resolve/{ticket} takes the ticket off the service's queue when it succeeds
resolveSettle(w, j, outcome) ==
    LET r == w.resolves[j]
        w1 == [w EXCEPT !.resolves = RemoveAt(@, j),
                        !.queue = IF outcome = "ok" THEN @ \ {r.ticket} ELSE @]
    IN resolveTry(w1, r, outcome)

handleLogout(w) == navigate(logout(w), "/login")

-----------------------------------------------------------------------------
(* Router and React commit *)

\* ProtectedRoute: /dashboard without a token renders <Navigate to="/login" replace />
ProtectedRoute(w) ==
    IF w.location = "/dashboard" /\ ~isAuthenticated(w)
    THEN navigate(w, "/login")
    ELSE w

\* a teardown that leaves the timer running
unmountDashboardKeepTimer(w) ==
    [w EXCEPT
        !.dash = DashInit,
        !.cycles = <<>>,
        !.resolves = <<>>,
        !.orphans = [t \in Tokens |->
            @[t] + Cardinality({i \in 1..Len(w.cycles) : w.cycles[i].token = t})
                 + Cardinality({j \in 1..Len(w.resolves) : w.resolves[j].token = t})]]

\* the Dashboard leaves the tree: its state is dropped, the effect's cleanup
\* clears the interval, its requests stay in flight without a component
unmountDashboard(w) ==
    [w EXCEPT
        !.dash = DashInit,
        !.intervals = IF @ > 0 THEN @ - 1 ELSE 0,
        !.cycles = <<>>,
        !.resolves = <<>>,
        !.orphans = [t \in Tokens |->
            @[t] + Cardinality({i \in 1..Len(w.cycles) : w.cycles[i].token = t})
                 + Cardinality({j \in 1..Len(w.resolves) : w.resolves[j].token = t})]]

\* the polling useEffect: fetchData(true), then setInterval
pollingEffect(w) ==
    [fetchData(w, TRUE) EXCEPT !.intervals = @ + 1]

\* a cleanup that leaves the interval of the previous run of the effect
pollingCleanupNothing(w) == w

pollingCleanup(w) == [w EXCEPT !.intervals = IF @ > 0 THEN @ - 1 ELSE 0]

mountDashboard(w) == pollingEffect([w EXCEPT !.dash = DashInit])

unmountLogin(w) == [w EXCEPT !.login = LoginInit]

unmountRegister(w) == [w EXCEPT !.register = RegisterInit]

\* what useContext(AuthContext) gives a component with no AuthProvider above
\* it: the default handed to createContext, createContext<AuthContextType>(null!)
AuthContextDefault == "null"

UseAuthMessage == "useAuth deve ser usado dentro de um AuthProvider"

\* what destructuring null or undefined throws
DestructureOfNull == "Cannot destructure property 'token' of 'useAuth(...)' as it is null."

\* useAuth: throws when the context is strictly equal to undefined, and
\* returns it otherwise
useAuth(context) ==
    IF context = "undefined"
    THEN [thrown |-> Some(UseAuthMessage), value |-> "undefined"]
    ELSE [thrown |-> Null, value |-> context]

\* const { token, logout } = useAuth() in the render of Dashboard
destructure(r) ==
    IF r.thrown # Null THEN r.thrown
    ELSE IF r.value \in {"undefined", "null"} THEN Some(DestructureOfNull)
    ELSE Null

\* Dashboard rendered outside an AuthProvider: useContext gives the default
renderWithoutProvider(w) ==
    LET e == destructure(useAuth(AuthContextDefault)) IN
    IF e # Null THEN [w EXCEPT !.crashed = TRUE, !.thrown = e] ELSE w

\* the render after a handler that took the world from prev to w0
commit(prev, w0) ==
    LET w == IF w0.root = GuardedApp THEN ProtectedRoute(w0) ELSE w0
        wasDash == prev.location = "/dashboard"
        isDash == w.location = "/dashboard"
        w0a == IF prev.location = "/login" /\ w.location # "/login"
               THEN unmountLogin(w) ELSE w
        w1 == IF prev.location = "/register" /\ w.location # "/register"
              THEN unmountRegister(w0a) ELSE w0a
    IN  IF w.root = LegacyApp
        THEN (IF isDash THEN renderWithoutProvider(w) ELSE w)
        ELSE IF wasDash /\ ~isDash THEN unmountDashboard(w1)
        ELSE IF ~wasDash /\ isDash THEN mountDashboard(w1)
        ELSE IF isDash /\ (w1.dash.isPolling # prev.dash.isPolling
                           \/ w1.token # prev.token)
        THEN pollingEffect(pollingCleanup(w1))
        ELSE w1

Step(w) ==
    LET n == commit(World, w) IN
    /\ ~crashed
    /\ InFlight(n) <= MaxInFlight
    /\ Apply(n)

DashboardShown == location = "/dashboard" /\ ~crashed

LoginShown == location = "/login" /\ root = GuardedApp

-----------------------------------------------------------------------------
(* Actions of the session specification *)

\* the interval fires
Tick ==
    /\ DashboardShown /\ intervals > 0
    /\ Step(fetchData(World, FALSE))

\* the service reads its queue for cycle i before the response is delivered
ServiceReads ==
    \E i \in 1..Len(cycles) :
        /\ cycles[i].snap = Null
        /\ Cardinality({k \in 1..Len(cycles) : cycles[k].snap # Null}) < MaxEarlyReads
        /\ cycles' = [cycles EXCEPT ![i].snap = Some(Listing(queue))]
        /\ UNCHANGED <<root, crashed, thrown, location, kioskVars, token, authToken, issued, login,
                       tokenReq, register, regReq, dash, intervals, resolves, orphans, queue,
                       authErrorRuns>>

FetchSettle ==
    \E i \in 1..Len(cycles) : \E p, s \in FetchOutcome :
        Step(fetchDataSettle(World, i, p, s))

\* a request of an unmounted Dashboard settles: only handleAuthError acts
OrphanSettle ==
    \E t \in Tokens : \E unauthorized \in BOOLEAN :
        /\ orphans[t] > 0
        /\ LET w == [World EXCEPT !.orphans[t] = @ - 1]
           IN Step(IF unauthorized THEN handleAuthError(w, FALSE, t) ELSE w)

OpenModal ==
    /\ DashboardShown /\ ~dash.isModalOpen
    /\ \E i \in 1..Len(dash.patients) :
            Step(handleOpenModal(World, dash.patients[i]))

CloseModal ==
    /\ DashboardShown /\ dash.isModalOpen
    /\ Step(handleCloseModal(World))

TypeDiagnosis ==
    /\ DashboardShown /\ dash.isModalOpen
    /\ \E v \in DiagnosisText : Step([World EXCEPT !.dash.finalDiagnosis = v])

SubmitDiagnosis ==
    /\ DashboardShown /\ dash.isModalOpen
    /\ Step(handleSubmitDiagnosis(World))

ResolveSettle ==
    \E j \in 1..Len(resolves) : \E outcome \in ResolveOutcome :
        Step(resolveSettle(World, j, outcome))

Logout ==
    /\ DashboardShown
    /\ Step(handleLogout(World))

\* Header and Hero links; the operator stays on the login view while its
\* request is in flight
GoHome ==
    /\ location # "/" /\ ~tokenReq /\ ~regReq
    /\ Step(navigate(World, "/"))

GoDashboard ==
    /\ location # "/dashboard" /\ ~tokenReq /\ ~regReq
    /\ Step(navigate(World, "/dashboard"))

\* Login.handleSubmit up to its await
LoginSubmit ==
    /\ LoginShown /\ ~login.isLoading
    /\ Step([World EXCEPT !.login = [isLoading |-> TRUE, error |-> Null],
                          !.tokenReq = TRUE])

\* a continuation that goes to the dashboard without handing the credential
\* to login
loginSettleNoStore(w, success) ==
    LET w1 == [w EXCEPT !.tokenReq = FALSE]
        w2 == IF success
              THEN navigate([w1 EXCEPT !.issued = @ + 1], "/dashboard")
              ELSE [w1 EXCEPT !.login.error =
                        <<"Falha no login. Verifique as suas credenciais.">>]
    IN [w2 EXCEPT !.login.isLoading = FALSE]

\* the continuation of Login.handleSubmit
loginSettle(w, success) ==
    LET w1 == [w EXCEPT !.tokenReq = FALSE]
        w2 == IF success
              THEN navigate(authLogin([w1 EXCEPT !.issued = @ + 1], w.issued + 1),
                            "/dashboard")
              ELSE [w1 EXCEPT !.login.error =
                        <<"Falha no login. Verifique as suas credenciais.">>]
    IN [w2 EXCEPT !.login.isLoading = FALSE]

LoginSettle ==
    /\ tokenReq
    /\ \E success \in BOOLEAN :
        /\ success => issued < MaxTokens
        /\ Step(loginSettle(World, success))

RegisterShown == location = "/register" /\ root = GuardedApp

\* the link of Login to the registration view
GoRegister ==
    /\ LoginShown /\ ~tokenReq
    /\ Step(navigate(World, "/register"))

\* the link of Register back to the login view
GoLogin ==
    /\ RegisterShown /\ ~regReq
    /\ Step(navigate(World, "/login"))

\* Register.handleSubmit up to its await
registerSubmit(w) ==
    [w EXCEPT !.register = [isLoading |-> TRUE, error |-> Null],
              !.regReq = TRUE]

RegisterSubmit ==
    /\ RegisterShown /\ ~register.isLoading
    /\ Step(registerSubmit(World))

\* what POST /users/register can settle with: a 2xx answer, a refusal whose
\* body carries a detail, one whose body carries none, one whose body is not
\* JSON, and a request that never got an answer
RegisterOutcome == {"ok", "detail", "nodetail", "notjson", "network"}

\* the continuation of Register.handleSubmit
registerSettle(w, outcome) ==
    LET w1 == [w EXCEPT !.regReq = FALSE]
        w2 == CASE outcome = "ok" -> navigate(w1, "/login")
                [] outcome = "detail" ->
                     [w1 EXCEPT !.register.error = <<"Utilizador já existe">>]
                [] outcome = "nodetail" ->
                     [w1 EXCEPT !.register.error = <<"Não foi possível criar a conta.">>]
                [] outcome = "notjson" ->
                     [w1 EXCEPT !.register.error = <<"Unexpected token">>]
                [] OTHER ->
                     [w1 EXCEPT !.register.error = <<"Failed to fetch">>]
    IN [w2 EXCEPT !.register.isLoading = FALSE]

RegisterSettle ==
    /\ regReq
    /\ \E outcome \in RegisterOutcome : Step(registerSettle(World, outcome))

\* the page is loaded anew: every component state and timer is gone, the
\* browser drops the requests in flight, AuthProvider reads the storage slot
reload(w) ==
    [w EXCEPT !.crashed = FALSE,
              !.thrown = Null,
              !.token = w.authToken,
              !.login = LoginInit,
              !.tokenReq = FALSE,
              !.register = RegisterInit,
              !.regReq = FALSE,
              !.dash = DashInit,
              !.intervals = 0,
              !.cycles = <<>>,
              !.resolves = <<>>,
              !.orphans = [t \in Tokens |-> 0],
              !.abandoned = 0]

\* the first render after a load: nothing was mounted before it
Reload ==
    LET w == reload(World)
        n == commit([w EXCEPT !.location = "about:blank"], w)
    IN  /\ InFlight(n) <= MaxInFlight
        /\ Apply(n)

\* patients arrive at and leave the service's queue (the kiosk, other operators)
Arrive ==
    \E t \in Tickets \ queue :
        /\ queue' = queue \cup {t}
        /\ UNCHANGED <<root, crashed, thrown, location, kioskVars, token, authToken, issued, login,
                       tokenReq, register, regReq, dash, intervals, cycles, resolves, orphans,
                       authErrorRuns>>

Depart ==
    \E t \in queue :
        /\ queue' = queue \ {t}
        /\ UNCHANGED <<root, crashed, thrown, location, kioskVars, token, authToken, issued, login,
                       tokenReq, register, regReq, dash, intervals, cycles, resolves, orphans,
                       authErrorRuns>>

\* the session and polling specification: the operator logs in and out and
\* moves between the views while the Dashboard polls; the dialog is not used
Next ==
    \/ Tick \/ ServiceReads \/ FetchSettle \/ OrphanSettle
    \/ Logout \/ GoHome \/ GoDashboard \/ LoginSubmit \/ LoginSettle
    \/ Reload
    \/ Arrive \/ Depart

SessionStart ==
    /\ root \in Roots
    /\ crashed = FALSE
    /\ thrown = Null
    /\ location = "/login"
    /\ kiosk = KioskInit
    /\ triage = Null
    /\ abandoned = 0
    /\ token = Null
    /\ authToken = Null
    /\ login = LoginInit
    /\ tokenReq = FALSE
    /\ register = RegisterInit
    /\ regReq = FALSE
    /\ dash = DashInit
    /\ intervals = 0
    /\ cycles = <<>>
    /\ resolves = <<>>
    /\ orphans = [t \in Tokens |-> 0]
    /\ authErrorRuns = [t \in Tokens |-> 0]

SessionInit == SessionStart /\ queue = {}

Init == SessionInit /\ issued = 0

Spec == Init /\ [][Next]_vars

\* the Dashboard specification: every operation of the Dashboard, the dialog
\* included, in the last session the service grants, with at most MaxBusy
\* requests in flight, each answered from the queue as it is on delivery
Calm == InFlight(World) <= MaxBusy

DashboardNext ==
    \/ Tick /\ Calm'
    \/ FetchSettle /\ Calm'
    \/ OrphanSettle
    \/ OpenModal
    \/ CloseModal
    \/ TypeDiagnosis
    \/ SubmitDiagnosis /\ Calm'
    \/ ResolveSettle
    \/ Logout
    \/ GoHome
    \/ GoDashboard /\ Calm'
    \/ LoginSubmit
    \/ LoginSettle /\ Calm'
    \/ Arrive
    \/ Depart

DashboardInit == SessionInit /\ issued = MaxTokens - 1

DashboardSpec == DashboardInit /\ [][DashboardNext]_vars

\* the resolve specification: the Dashboard of the last session the service
\* grants, its timer, its dialog and the service's early reads, over a queue
\* that holds every ticket from the start and loses one with each resolve
\* call that succeeds; the operator stays on the Dashboard
ResolveNext ==
    \/ Tick /\ Calm'
    \/ ServiceReads
    \/ FetchSettle /\ Calm'
    \/ OrphanSettle
    \/ OpenModal
    \/ CloseModal
    \/ TypeDiagnosis
    \/ SubmitDiagnosis /\ Calm'
    \/ ResolveSettle
    \/ LoginSubmit
    \/ LoginSettle /\ Calm'

ResolveInit == SessionStart /\ queue = Tickets /\ issued = MaxTokens - 1

ResolveSpec == ResolveInit /\ [][ResolveNext]_vars

\* the credential specification: every view that runs beside the session
\* store (the wizard, Login, Register, the Dashboard without its timer and
\* dialog) in the last session the service grants, with at most MaxHeld
\* requests of the Dashboard in flight
Held == InFlight(World) <= MaxHeld

CredentialNext ==
    \/ KioskNext
    \/ GoRegister
    \/ GoLogin
    \/ RegisterSubmit
    \/ RegisterSettle
    \/ LoginSubmit
    \/ LoginSettle /\ Held'
    \/ Logout
    \/ GoHome
    \/ GoDashboard /\ Held'
    \/ FetchSettle
    \/ OrphanSettle

CredentialSpec == DashboardInit /\ [][CredentialNext]_vars

KioskSpecInit ==
    /\ root \in Roots
    /\ crashed = FALSE
    /\ thrown = Null
    /\ location = "/kiosk"
    /\ kiosk = KioskInit
    /\ triage = Null
    /\ abandoned = 0
    /\ token = Null
    /\ authToken = Null
    /\ issued = 0
    /\ login = LoginInit
    /\ tokenReq = FALSE
    /\ register = RegisterInit
    /\ regReq = FALSE
    /\ dash = DashInit
    /\ intervals = 0
    /\ cycles = <<>>
    /\ resolves = <<>>
    /\ orphans = [t \in Tokens |-> 0]
    /\ queue = {}
    /\ authErrorRuns = [t \in Tokens |-> 0]

KioskSpec == KioskSpecInit /\ [][KioskNext]_vars

-----------------------------------------------------------------------------
(* Properties *)

InSeq(x, s) == \E i \in 1..Len(s) : s[i] = x

\* a fetch started by a timer tick is in flight for the mounted Dashboard
PollInFlight == \E i \in 1..Len(cycles) : ~cycles[i].initial

\* the list cycle i is answered with
listOf(i) == IF cycles[i].snap = Null THEN Listing(queue) ELSE cycles[i].snap[1]

\* the Dashboard stays mounted over the step
StaysMounted == location = "/dashboard" /\ location' = "/dashboard"

\* the step is the completion of cycle i with the answers p and s
FetchSettleStep(i, p, s) == Step(fetchDataSettle(World, i, p, s))

\* the step is the completion of resolve call j with the given answer
ResolveSettleStep(j, outcome) == Step(resolveSettle(World, j, outcome))

\* C1, as the specification states it: for every credential, however many
\* fetch cycles and resolve calls sent with it are answered 401,
\* handleAuthError (logout and redirect to /login) runs at most once.
C1_AuthErrorOncePerCredential ==
    \A t \in Tokens : authErrorRuns[t] <= 1

\* C2, as the specification states it: while a fetch started by a timer tick
\* is in flight, a timer tick issues no request, so the cycles in flight are
\* the same after the tick.
C2_TickSkippedWhilePollInFlight ==
    [][(PollInFlight /\ Tick) => cycles' = cycles]_vars

\* C3: while the Dashboard stays mounted, stats change only in the completion
\* of a fetch cycle whose two responses succeeded and parsed, and that step
\* stores the answered list and its stats together; the entry list changes
\* only in such a step or by the local removal of a resolved ticket; and no
\* step that changes the entry list or the stats is the completion of a cycle
\* with an unauthorized, non-success, failed or unparsable response.
C3_ReplicaReplacedTogether ==
    [][/\ (StaysMounted /\ dash'.stats # dash.stats) =>
            \E i \in 1..Len(cycles) :
                /\ FetchSettleStep(i, "ok", "ok")
                /\ dash'.patients = listOf(i)
                /\ dash'.stats = [total_in_queue |-> Len(listOf(i))]
       /\ (StaysMounted /\ dash'.patients # dash.patients) =>
            \/ \E i \in 1..Len(cycles) :
                /\ FetchSettleStep(i, "ok", "ok")
                /\ dash'.patients = listOf(i)
                /\ dash'.stats = [total_in_queue |-> Len(listOf(i))]
            \/ \E j \in 1..Len(resolves) :
                /\ ResolveSettleStep(j, "ok")
                /\ dash'.stats = dash.stats
       /\ (StaysMounted /\ (dash'.patients # dash.patients
                            \/ dash'.stats # dash.stats)) =>
            \A i \in 1..Len(cycles) : \A p, s \in FetchOutcome :
                <<p, s>> # <<"ok", "ok">> => ~FetchSettleStep(i, p, s)
      ]_vars

\* a failed cycle has left a replica that an earlier cycle had filled
C3_Witness ==
    /\ location = "/dashboard"
    /\ dash.patients # <<>>
    /\ dash.stats.total_in_queue = Len(dash.patients)
    /\ dash.error = <<"Unexpected token">>

C5_ResolveFailureKeepsDialog ==
    [][\A j \in 1..Len(resolves) : \A o \in ResolveOutcome :
          ResolveSettleStep(j, o) =>
            IF o = "ok"
            THEN ~InSeq(resolves[j].ticket, dash'.patients) /\ ~dash'.isModalOpen
            ELSE /\ dash'.patients = dash.patients
                 /\ dash'.isModalOpen = dash.isModalOpen
                 /\ dash'.finalDiagnosis = dash.finalDiagnosis
                 /\ dash'.modalError # Null]_vars

\* C5: a succeeding resolve call removes the entry from the local replica and
\* closes the dialog; a call that fails with a network failure or a
\* non-success response other than 401 leaves the entry list, the dialog and
\* the diagnosis text as they are and shows an error in the dialog; a call
\* answered 401 takes the expiry path instead: logout and the login view.
C5_ResolveFailureKeepsDialogUnless401 ==
    [][\A j \in 1..Len(resolves) : \A o \in ResolveOutcome :
          ResolveSettleStep(j, o) =>
            CASE o = "ok" ->
                    /\ ~InSeq(resolves[j].ticket, dash'.patients)
                    /\ ~dash'.isModalOpen
                    /\ StaysMounted
              [] o = "401" ->
                    /\ token' = Null /\ authToken' = Null
                    /\ location' = "/login"
              [] OTHER ->
                    /\ dash'.patients = dash.patients
                    /\ dash'.isModalOpen = dash.isModalOpen
                    /\ dash'.currentPatient = dash.currentPatient
                    /\ dash'.finalDiagnosis = dash.finalDiagnosis
                    /\ dash'.modalError # Null
                    /\ StaysMounted]_vars

\* a resolve call has failed: the dialog shows the error over the entered
\* diagnosis and the entry is still listed
C5_Witness ==
    /\ location = "/dashboard"
    /\ dash.isModalOpen
    /\ dash.modalError = <<"Falha ao submeter o diagnóstico. Tente novamente.">>
    /\ dash.finalDiagnosis = <<"a">>
    /\ dash.currentPatient # Null
    /\ InSeq(dash.currentPatient[1], dash.patients)

AllBlank(s) == \A i \in 1..Len(s) : s[i] = " "

\* C6: in Basics the step to ComplaintSelection can be taken exactly when
\* neither name nor age consists of whitespace only (or of nothing).
C6_BasicsGate ==
    (location = "/kiosk" /\ kiosk.step = 1) =>
        ((~ENABLED NextStep)
            <=> (AllBlank(kiosk.formData.name) \/ AllBlank(kiosk.formData.age)))

\* the gate has let through a name with whitespace around it
C6_Witness ==
    /\ location = "/kiosk"
    /\ kiosk.step = 2
    /\ kiosk.formData.name = <<" ", "a">>
    /\ kiosk.formData.age # <<>>

\* C7: a step from ComplaintSelection to Details is taken only with a
\* complaint mode chosen and a non-empty mainComplaint; with the mode unset or
\* mainComplaint empty no step leads from ComplaintSelection to Details.
C7_ComplaintGate ==
    [][(location = "/kiosk" /\ kiosk.step = 2 /\ kiosk'.step = 3) =>
            (kiosk.complaintMode # "null" /\ kiosk.formData.mainComplaint # <<>>)
      ]_vars

\* Details was entered with a complaint in either mode
C7_Witness ==
    /\ location = "/kiosk"
    /\ kiosk.step = 3
    /\ kiosk.complaintMode = "text"
    /\ kiosk.formData.mainComplaint \notin complaintOptions
    /\ kiosk.formData.mainComplaint # <<>>

\* C8: while the wizard stays mounted, the step that makes the mode
\* free-text empties mainComplaint when it is one of the option keys and
\* keeps it otherwise; the steps that make the mode list-selection or unset
\* keep mainComplaint, and so does every step taken with the mode unset.
C8_ModeSwitch ==
    [][(location = "/kiosk" /\ location' = "/kiosk") =>
        /\ (kiosk.complaintMode # "text" /\ kiosk'.complaintMode = "text") =>
                kiosk'.formData.mainComplaint =
                    IF kiosk.formData.mainComplaint \in {<<"a">>, <<"a", "a">>}
                    THEN <<>> ELSE kiosk.formData.mainComplaint
        /\ (kiosk.complaintMode # "options" /\ kiosk'.complaintMode = "options") =>
                kiosk'.formData.mainComplaint = kiosk.formData.mainComplaint
        /\ (kiosk.complaintMode = "text" /\ kiosk'.complaintMode = "null") =>
                kiosk'.formData.mainComplaint = kiosk.formData.mainComplaint
        /\ (kiosk.complaintMode = "null" /\ kiosk'.complaintMode = "null") =>
                kiosk'.formData.mainComplaint = kiosk.formData.mainComplaint
      ]_vars

\* free text that is no option key has gone to list-selection and back
C8_Witness ==
    /\ location = "/kiosk"
    /\ kiosk.step = 2
    /\ kiosk.complaintMode = "options"
    /\ kiosk.formData.mainComplaint = <<"a", " ">>

\* the message for the field errors d: the heading, then for each error the
\* pieces Campo ", field name, ": and reason, the entries separated by ", "
IsFieldErrorMessage(m, d) ==
    /\ Len(m) = IF d = <<>> THEN 1 ELSE 5 * Len(d)
    /\ m[1] = "Dados inválidos: "
    /\ \A i \in 1..Len(d) :
        /\ m[5 * i - 3] = "Campo \""
        /\ m[5 * i - 2] = d[i].loc[2]
        /\ m[5 * i - 1] = "\": "
        /\ m[5 * i] = d[i].msg[Len(d[i].msg)]
        /\ i > 1 => m[5 * i - 4] = ", "

\* C9: the completion of a submission answered 422 with the list d of field
\* errors leaves the wizard in Details, not loading, without a result, and
\* showing one message with one entry (field name and reason) per error of d.
C9_FieldErrorsMessage ==
    [][\A d \in FieldErrorLists :
          (/\ location = "/kiosk" /\ triage # Null /\ triage' = Null
           /\ kiosk' = handleSubmitSettle(kiosk, Response("list", 422, d, Null, <<>>)))
          => /\ kiosk'.step = 3
             /\ ~kiosk'.isLoading
             /\ kiosk'.apiResult = kiosk.apiResult
             /\ kiosk'.errorMessage # Null
             /\ IsFieldErrorMessage(kiosk'.errorMessage, d)]_vars

\* Details shows the message for two field errors
C9_Witness ==
    /\ location = "/kiosk"
    /\ kiosk.step = 3
    /\ kiosk.errorMessage # Null
    /\ Len(kiosk.errorMessage) = 10
    /\ kiosk.errorMessage[1] = "Dados inválidos: "

\* C10: the completion of a submission answered with the TriageResult r
\* leaves the wizard in Result holding r; a step enters Result only from
\* Submitting, with the request in flight, and stores a returned
\* TriageResult in it.
C10_ResultAfterSuccess ==
    [][/\ \A r \in TriageResults :
            (/\ location = "/kiosk" /\ triage # Null /\ triage' = Null
             /\ kiosk' = handleSubmitSettle(kiosk, Response("result", 200, <<>>, Some(r), <<>>)))
            => (kiosk'.step = 5 /\ kiosk'.apiResult = Some(r) /\ ~kiosk'.isLoading)
       /\ (kiosk.step # 5 /\ kiosk'.step = 5) =>
            /\ kiosk.step = 4
            /\ triage # Null /\ triage' = Null
            /\ \E r \in TriageResults : kiosk'.apiResult = Some(r)
      ]_vars

\* the wizard shows a returned result
C10_Witness ==
    /\ location = "/kiosk"
    /\ kiosk.step = 5
    /\ kiosk.apiResult # Null
    /\ kiosk.apiResult[1].classification.priority = "VERMELHO"

\* the wizard as a newly mounted Kiosk holds it
FreshWizard(k) ==
    /\ k.step = 1
    /\ \A f \in {"name", "age", "mainComplaint", "symptoms", "medicalHistory"} :
            k.formData[f] = <<>>
    /\ k.complaintMode = "null"
    /\ k.apiResult = Null
    /\ k.errorMessage = Null
    /\ ~k.isLoading

FailedResponses == {resp \in TriageResponses : resp.kind # "result"}

NonEmptyMessage(m) == m # <<>> /\ \A i \in 1..Len(m) : m[i] # ""

\* C12: the completion of a submission with any failure (a non-success
\* response of whatever status and body, an unparsable body, a network
\* failure) leaves the wizard in Details, not loading, with a non-empty error
\* message; while the wizard is in Submitting its request is in flight and
\* can settle, and the step in which it settles takes the wizard out of
\* Submitting, to Details with an error or to Result.
C12_FailureBackToDetails ==
    [][/\ \A resp \in FailedResponses :
            (/\ location = "/kiosk" /\ triage # Null /\ triage' = Null
             /\ kiosk' = handleSubmitSettle(kiosk, resp))
            => /\ kiosk.step = 4 /\ kiosk'.step = 3
               /\ ~kiosk'.isLoading
               /\ NonEmptyMessage(kiosk'.errorMessage)
       /\ (location = "/kiosk" /\ kiosk.step = 4) =>
            (triage # Null /\ ENABLED SubmitSettle)
       /\ (location = "/kiosk" /\ location' = "/kiosk" /\ triage # Null /\ triage' = Null) =>
            \/ kiosk'.step = 3 /\ NonEmptyMessage(kiosk'.errorMessage)
            \/ kiosk'.step = 5 /\ kiosk'.apiResult # Null
      ]_vars

\* Details shows the default message after a failure that carried none
C12_Witness ==
    /\ location = "/kiosk"
    /\ kiosk.step = 3
    /\ ~kiosk.isLoading
    /\ kiosk.errorMessage = <<"Não foi possível ligar ao servidor de triagem.">>

\* C13, as the specification states it: whenever a step ends on the
\* /dashboard route the session is authenticated and the view has rendered;
\* going to /dashboard without a credential ends on the login view; and a
\* logout while the dashboard is shown ends on the login view without a
\* credential.
C13_DashboardOnlyAuthenticated ==
    [][/\ location' = "/dashboard" => (token' # Null /\ ~crashed')
       /\ (location # "/dashboard" /\ token = Null
           /\ Step(navigate(World, "/dashboard"))) => location' = "/login"
       /\ (DashboardShown /\ Step(handleLogout(World))) =>
            (location' = "/login" /\ token' = Null)
      ]_vars

\* C14: before and after every step the credential in memory equals the
\* content of the storage slot, and the session counts as authenticated
\* exactly when the slot is filled; a succeeding login puts the issued
\* credential in both, a logout empties both, and a load of the page takes the
\* credential in memory from the slot and leaves the slot as it is.
\* (The last three are written contrapositively: a step that ends otherwise is
\* not that operation.)
C14_MemoryEqualsStorage ==
    /\ [](/\ token = authToken
          /\ isAuthenticated(World) <=> authToken # Null)
    /\ [][
       /\ (/\ tokenReq /\ issued < MaxTokens
           /\ ~(token' = Some(issued + 1) /\ authToken' = Some(issued + 1)))
          => ~Step(loginSettle(World, TRUE))
       /\ (DashboardShown /\ ~(token' = Null /\ authToken' = Null))
          => ~Step(handleLogout(World))
       /\ ~(token' = authToken /\ authToken' = authToken) => ~Reload
      ]_vars

\* the second credential is held after a logout of the first and a new login
C14_Witness ==
    /\ root = GuardedApp
    /\ token = Some(2)
    /\ authToken = Some(2)
    /\ authErrorRuns[1] = 0
    /\ location = "/dashboard"

\* the requests of the mounted Dashboard all carry the credential c
CarryCredential(c, cs, rs) ==
    /\ \A i \in 1..Len(cs) : cs[i].token = c
    /\ \A j \in 1..Len(rs) : rs[j].token = c

\* C15: after every step, the fetch cycles and resolve calls the mounted
\* Dashboard has in flight, the ones issued in that step among them, carry
\* the credential the session store holds; a step that adds a request ends
\* with a credential in the store.
C15_RequestsCarryCredential ==
    [][/\ (cycles' # <<>> \/ resolves' # <<>>) =>
            (token' # Null /\ CarryCredential(token'[1], cycles', resolves'))
       /\ (Len(cycles') + Len(resolves') > Len(cycles) + Len(resolves)) =>
            (token' # Null /\ authToken' = token')
      ]_vars

\* a fetch cycle and a resolve call are in flight with the credential held
C15_Witness ==
    /\ location = "/dashboard"
    /\ token = Some(MaxTokens)
    /\ cycles # <<>> /\ cycles[1].token = MaxTokens
    /\ resolves # <<>> /\ resolves[1].token = MaxTokens

\* C16: while the Dashboard is not mounted no polling timer is alive and no
\* timer tick can be taken, whether or not requests of an earlier Dashboard
\* are still in flight; while it is mounted exactly one timer is alive.
C16_TimerCancelledOnTeardown ==
    /\ ~DashboardShown => (intervals = 0 /\ ~ENABLED Tick)
    /\ DashboardShown => intervals = 1

\* the Dashboard was torn down with a fetch in flight and its timer is gone
C16_Witness ==
    /\ ~DashboardShown
    /\ \E t \in Tokens : orphans[t] > 0
    /\ intervals = 0
    /\ token # Null

\* C17, as the specification states it: the completion of a request whose
\* Dashboard has been torn down changes neither the credential in memory nor
\* the storage slot nor the route.
C17_OrphanCompletionInert ==
    [][OrphanSettle =>
            (token' = token /\ authToken' = authToken /\ location' = location)
      ]_vars

\* C18, as the specification states it: when the resolve call of the dialog
\* has been answered, with success or with failure, and the Dashboard stays on
\* screen, that step issues a fetch cycle of the queue and the statistics.
C18_ResolveTriggersReconciliation ==
    [][(ResolveSettle /\ StaysMounted) => Len(cycles') > Len(cycles)]_vars

\* a cycle whose two requests were both answered, neither with 401, and that
\* did not deliver both bodies
FailedCycle(p, s) == p # "401" /\ s # "401" /\ ~(p = "ok" /\ s = "ok")

\* the request a tick of the interval sends from the current state
TickIssuesPoll ==
    LET n == fetchData(World, FALSE)
    IN /\ Len(n.cycles) = Len(cycles) + 1
       /\ ~n.cycles[Len(n.cycles)].initial

\* C19: a fetch cycle that fails otherwise than by 401, on a Dashboard that stays
\* on screen, sets the error banner and leaves an interval registered with the
\* polling flag down; in every state with the Dashboard on screen and the
\* polling flag down a tick sends a new cycle, and a tick step taken there
\* adds requests in flight; a cycle that delivers both bodies clears the banner.
\* (Each implication is written with the settle step as its last conjunct.)
C19_FailureKeepsPolling ==
    /\ []((DashboardShown /\ ~dash.isPolling) => (token # Null /\ TickIssuesPoll))
    /\ [][(~dash.isPolling /\ Len(cycles') <= Len(cycles)) => ~Tick]_vars
    /\ [][(StaysMounted /\ Len(cycles) > 0)
          => \A i \in 1..Len(cycles) : \A p, s \in FetchOutcome :
                /\ (/\ FailedCycle(p, s)
                    /\ ~(dash'.error # Null /\ intervals' > 0 /\ ~dash'.isPolling))
                   => ~FetchSettleStep(i, p, s)
                /\ (p = "ok" /\ s = "ok" /\ dash'.error # Null)
                   => ~FetchSettleStep(i, p, s)
         ]_vars

\* a failed cycle has left its message on a Dashboard that is on screen with
\* its interval registered and nothing in flight
C19_Witness ==
    /\ DashboardShown /\ intervals > 0 /\ cycles = <<>>
    /\ dash.error # Null
    /\ dash.error # <<"Sessão expirada. Por favor, faça login novamente.">>

\* C20, as the specification states it: the step in which a fetch cycle
\* settles, with success or with failure, sends no request: the cycles in
\* flight afterwards are those of before less the settled one.
C20_SettleStartsNoFetch ==
    [][FetchSettle => Len(cycles') < Len(cycles)]_vars

\* the steps of the registration view
RegisterNext == GoRegister \/ GoLogin \/ RegisterSubmit \/ RegisterSettle

CredentialChanged == token' # token \/ authToken' # authToken

\* the credential and the slot after AuthProvider's logout, and after its
\* login with the token the pending POST /token is answered with
AfterLogout == token' = logout(World).token /\ authToken' = logout(World).authToken

AfterLogin ==
    /\ tokenReq /\ location = "/login"
    /\ token' = authLogin(World, issued + 1).token
    /\ authToken' = authLogin(World, issued + 1).authToken

\* C21: a step that changes the token state or the storage slot is no step of the
\* wizard (a triage submission answered with 401 included) and none of the
\* registration view; it leaves both as logout leaves them or as login leaves
\* them when Login's request is answered; and a step taken with the Dashboard on
\* screen changes them only to what logout leaves.
C21_CredentialOnlyByLoginLogout ==
    [][CredentialChanged =>
            /\ ~KioskNext
            /\ ~RegisterNext
            /\ AfterLogout \/ AfterLogin
            /\ location = "/dashboard" => AfterLogout
      ]_vars

\* the wizard shows the failure of a submission while a credential is held
C21_Witness ==
    /\ token # Null /\ authToken = token
    /\ KioskShown /\ kiosk.step = 3 /\ kiosk.errorMessage # Null

\* C22, as the specification states it: when the result view shows a triage
\* result whose priority is none of VERMELHO, LARANJA, AMARELO, VERDE, AZUL, the
\* style selected is the entry of AZUL and the render raises no error.
C22_UnknownPriorityStyledAzul ==
    (/\ location = "/kiosk" /\ kiosk.step = 5 /\ kiosk.apiResult # Null
     /\ kiosk.apiResult[1].classification.priority \notin OwnStyles)
    => (currentResultStyle(kiosk) = lookup("AZUL") /\ ~crashed)

\* the "Fila de espera vazia" view of the Dashboard
emptyQueueView(d) == ~d.isLoading /\ Len(d.patients) = 0 /\ d.error = Null

C24_BackwardNavigation ==
    /\ [](KioskShown =>
            /\ kiosk.step \in {2, 3} => ENABLED PrevStep
            /\ kiosk.step >= 4 => ~ENABLED PrevStep)
    /\ [][PrevStep =>
            /\ kiosk.step \in {2, 3}
            /\ kiosk' = [kiosk EXCEPT !.step = kiosk.step - 1]
            /\ kiosk'.formData = kiosk.formData
         ]_vars

\* the operator has gone back from the details step with symptoms entered
C24_Witness ==
    /\ KioskShown /\ kiosk.step = 2
    /\ kiosk.formData.symptoms # <<>>
    /\ kiosk.formData.mainComplaint # <<>>

\* C25: the step in which a resolve call fails otherwise than by 401 changes,
\* of the Dashboard's state, the dialog's error message only: the error banner,
\* the entry list and the stats are what they were, no request is sent, and
\* the credential and the route stay.
C25_ResolveFailureDialogOnly ==
    [][\A j \in 1..Len(resolves) : \A o \in {"network", "500"} :
          ResolveSettleStep(j, o) =>
            /\ dash'.error = dash.error
            /\ dash'.patients = dash.patients
            /\ dash'.stats = dash.stats
            /\ dash' = [dash EXCEPT !.modalError = dash'.modalError]
            /\ cycles' = cycles
            /\ token' = token /\ authToken' = authToken
            /\ StaysMounted]_vars

\* a resolve call has failed while the banner of a failed fetch was showing:
\* both messages are on screen and the entry is still listed
C25_Witness ==
    /\ DashboardShown /\ dash.isModalOpen
    /\ dash.modalError = <<"Falha ao submeter o diagnóstico. Tente novamente.">>
    /\ dash.error = <<"Failed to fetch">>
    /\ dash.patients # <<>>
    /\ resolves = <<>>

FormFieldNames == {"name", "age", "mainComplaint", "symptoms", "medicalHistory"}

\* the body b carries the five fields of the form f, each as the text entered
CarriesForm(b, f) ==
    /\ DOMAIN b = FormFieldNames
    /\ b.name = f.name
    /\ b.age = f.age
    /\ b.mainComplaint = f.mainComplaint
    /\ b.symptoms = f.symptoms
    /\ b.medicalHistory = f.medicalHistory

C27_OneCycleInFlight == Len(cycles) <= 1

\* C28, as the specification states it: once the initial-load indicator of a
\* Dashboard has gone down it does not go up again while that Dashboard stays
\* on screen with the same credential.
C28_InitialLoadOncePerMount ==
    [][(StaysMounted /\ token' = token /\ ~dash.isLoading) => ~dash'.isLoading]_vars

\* C29, as the specification states it: a cycle issued before one whose data
\* the Dashboard already holds does not store its own data when it completes.
C29_ResultsInIssueOrder ==
    [][StaysMounted =>
         \A i \in 1..Len(cycles) :
            cycles[i].overtaken => ~FetchSettleStep(i, "ok", "ok")
      ]_vars

\* C30, as the specification states it: a ticket that the service has taken off
\* its queue on a resolve call that succeeded, and that the Dashboard has
\* removed from its list, is not put back on the list by any later step.
\* (Stated under ResolveSpec, where a ticket leaves the service's queue only by
\* a resolve call that succeeded and never returns to it.)
C30_ResolvedTicketStaysGone ==
    [][\A t \in Tickets \ queue :
          ~InSeq(t, dash.patients) => ~InSeq(t, dash'.patients)]_vars

\* C31, as the specification states it: when a request that was sent with a
\* credential other than the one now held is answered 401, the credential now
\* held stays in memory and in the storage slot.
C31_StaleUnauthorizedKeepsNewCredential ==
    [][\A t \in Tokens :
          (/\ orphans[t] > 0 /\ token # Null /\ token # Some(t)
           /\ ~(token' = token /\ authToken' = authToken))
          => ~Step(handleAuthError([World EXCEPT !.orphans[t] = @ - 1], FALSE, t))
      ]_vars

\* C32: the continuation of Login's request that was answered with success
\* ends on the dashboard with the issued credential in memory and in the
\* storage slot; the continuation of a failed request (a non-2xx answer or a
\* network failure) leaves memory, slot and location as they were and leaves
\* the login view showing an error, no longer loading; and a step that
\* settles Login's request and changes the location ends on the dashboard
\* with a new credential stored.
\* (Written contrapositively: a step that ends otherwise is not that
\* continuation.)
C32_LoginNavigatesAfterStore ==
    [][
       /\ (/\ tokenReq /\ issued < MaxTokens
           /\ ~(/\ location' = "/dashboard"
                /\ token' = Some(issued + 1) /\ authToken' = Some(issued + 1)))
          => ~Step(loginSettle(World, TRUE))
       /\ (/\ tokenReq
           /\ ~(/\ token' = token /\ authToken' = authToken
                /\ location' = location
                /\ login'.error # Null /\ ~login'.isLoading))
          => ~Step(loginSettle(World, FALSE))
       /\ (tokenReq /\ ~tokenReq' /\ location' # location)
          => /\ location' = "/dashboard"
             /\ token' # Null /\ token' # token /\ authToken' = token'
      ]_vars

\* the login view shows the error of a failed authentication, no credential held
C32_Witness ==
    /\ LoginShown /\ ~crashed
    /\ ~tokenReq /\ ~login.isLoading
    /\ login.error # Null
    /\ token = Null /\ authToken = Null

\* the POST /triage requests not yet answered, those of unmounted wizards
\* included
triageInFlight == Len(triage) + abandoned

\* C33, as the specification states it: at any time at most one triage
\* submission is in flight, and the wizard on screen is in Submitting with its
\* loading flag set exactly while a submission is in flight.
C33_OneSubmissionInFlight ==
    /\ triageInFlight <= 1
    /\ KioskShown => (kiosk.step = 4 /\ kiosk.isLoading <=> triageInFlight > 0)

\* C33, amended: the wizard has at most one submission of its own in flight: it
\* is in Submitting exactly while its request is not answered, its loading
\* flag is set exactly then, and a step that sends a request is taken with
\* none of its own in flight; a submission whose wizard was left stays in
\* flight beside the next wizard's and is answered without touching it, or
\* ends with the page load of "Finalizar e Voltar ao Início".
C33_OneSubmissionPerWizard ==
    /\ [](/\ kiosk.step = 4 <=> triage # Null
          /\ kiosk.isLoading <=> triage # Null)
    /\ [][/\ (triage' # Null /\ triage' # triage) => triage = Null
          /\ abandoned' < abandoned
             => \/ UNCHANGED <<location, kiosk, triage>>
                \/ kiosk.step = 5 /\ location' = "/" /\ abandoned' = 0
          /\ abandoned' > abandoned => (triage # Null /\ location' # "/kiosk")
         ]_vars

\* a second wizard is submitting while the request of the first, which was
\* left, is still in flight
C33_Witness ==
    /\ KioskShown
    /\ kiosk.step = 4 /\ kiosk.isLoading /\ triage # Null
    /\ abandoned = 1

NonBlank(text) == trim(text) # <<>>

C35_OneResolvePerTicket ==
    \A i, j \in 1..Len(resolves) :
        resolves[i].ticket = resolves[j].ticket => i = j

\* C36, as the specification states it: the completion of a resolve call
\* (other than with 401, which ends the session) that arrives while the dialog
\* is open for another patient than the one the call was sent for leaves that
\* dialog open, for the same patient, with the dialog error it had.
C36_ResolveOutcomeOwnDialogOnly ==
    [][\A j \in 1..Len(resolves) : \A outcome \in ResolveOutcome \ {"401"} :
          (/\ DashboardShown /\ dash.isModalOpen
           /\ dash.currentPatient # Some(resolves[j].ticket)
           /\ ~(/\ dash'.isModalOpen
                /\ dash'.currentPatient = dash.currentPatient
                /\ dash'.modalError = dash.modalError))
          => ~ResolveSettleStep(j, outcome)
      ]_vars

\* C37: while the Dashboard is mounted (which takes a credential) exactly one
\* interval timer is active, after every restart of the polling effect too;
\* while it is not mounted none is active.
C37_OnePollingTimer ==
    /\ (location = "/dashboard" /\ root = GuardedApp)
       => (token # Null /\ intervals = 1)
    /\ (location # "/dashboard" \/ root # GuardedApp) => intervals = 0

\* the polling effect has restarted on a tick: the poll and the load the
\* restart issued are in flight, one timer is active
C37_Witness ==
    /\ DashboardShown /\ root = GuardedApp
    /\ dash.isPolling /\ PollInFlight
    /\ \E i \in 1..Len(cycles) : cycles[i].initial
    /\ intervals = 1

\* C38: a step that confirms the dialog while its diagnosis is empty after
\* trimming sends no request and changes nothing of the Dashboard but the
\* dialog error, which becomes the validation message: the dialog stays open
\* for its patient and the replica is as it was; and a step that opens the
\* dialog ends with the dialog open for a listed patient, its diagnosis text
\* empty and no dialog error.
\* (Written contrapositively: a step that ends otherwise is not that handler.)
C38_BlankDiagnosisSendsNothing ==
    [][
       /\ (/\ DashboardShown /\ dash.isModalOpen
           /\ trim(dash.finalDiagnosis) = <<>>
           /\ ~(/\ resolves' = resolves /\ cycles' = cycles /\ queue' = queue
                /\ dash' = [dash EXCEPT !.modalError =
                                <<"O diagnóstico final não pode estar vazio.">>]))
          => ~Step(handleSubmitDiagnosis(World))
       /\ (/\ DashboardShown /\ ~dash.isModalOpen
           /\ ~(/\ dash'.isModalOpen
                /\ dash'.currentPatient # Null
                /\ InSeq(dash'.currentPatient[1], dash.patients)
                /\ dash'.finalDiagnosis = <<>>
                /\ dash'.modalError = Null))
          => \A i \in 1..Len(dash.patients) :
                ~Step(handleOpenModal(World, dash.patients[i]))
      ]_vars

\* the dialog shows the validation error over a diagnosis of blanks
C38_Witness ==
    /\ DashboardShown /\ dash.isModalOpen
    /\ dash.finalDiagnosis = <<" ">>
    /\ dash.modalError = <<"O diagnóstico final não pode estar vazio.">>
    /\ resolves = <<>>

\* C39, as the specification states it: when a component that is not inside
\* an AuthProvider calls useAuth (the Dashboard of the App without a provider),
\* the error raised is 'useAuth deve ser usado dentro de um AuthProvider'.
C39_UseAuthRaisesOutsideProvider ==
    (root = LegacyApp /\ location = "/dashboard")
    => thrown = Some(UseAuthMessage)

====
